---- MODULE Spec2Model ----
(***************************************************************************)
(* Shot-sequencing and progress-streaming orchestrator of the video        *)
(* generation backend (backend/app.py, backend/generator.py).              *)
(*                                                                         *)
(* A task is one accepted submission: a worker thread that runs one of the *)
(* three job functions of generator.py and reports through a queue.Queue   *)
(* registered in progress_queues; a stream is one GET /api/progress/<id>   *)
(* connection reading that queue.                                          *)
(***************************************************************************)
EXTENDS Integers, Sequences, FiniteSets, TLC

\* ------------------------------------------------------------------ bounds
MaxTasks == 2        \* size of the pool of task ids (uuid4 values)
MaxStreams == 2      \* size of the pool of progress connections
MaxLen == 4          \* longest shot list a client submits
MaxProgress == 1     \* progress callbacks the downloader makes per shot
MaxKeepalive == 1    \* keepalive frames counted per stream
MaxClock == 2        \* last second the wall clock reaches
MaxSpaces == 1       \* fields of a later shot that are strings of blanks
MaxDim == 4          \* largest width or height of an image, in pixels

Tasks == 1..MaxTasks
Streams == 1..MaxStreams
ShotLens == 0..MaxLen

\* ------------------------------------------------------------- identifiers
NoVideo == <<"none", 0, 0>>
SourceVideo == <<"source", 0, 0>>           \* the video_id a remix request carries
NewVideoId(t, i) == <<"video", t, i>>       \* the id the remote service gives the video of shot i of task t

\* ------------------------------------------------------------------ events
Event(type, shot, total, by) ==
    [type |-> type, shot_number |-> shot, total_shots |-> total, by |-> by,
     message |-> "", full_error |-> ""]
\* {'type': 'error', 'message': ..., 'full_error': ...}; the runner's has no full_error
ErrorEvent(message, full_error, by) ==
    [Event("error", 0, 0, by) EXCEPT !.message = message, !.full_error = full_error]
Sentinel == Event("None", 0, 0, "runner")
TerminalTypes == {"complete", "error"}

VARIABLES
    progress_queues,     \* keys of the channel map
    generation_results,  \* the result map: a function on the task ids that have a result
    queue,               \* queue[t]: content of the Queue object made for task t
    task,                \* task[t]: the worker of task t and the locals of its job function
    pushed,              \* pushed[t]: every item ever put on queue[t], in order
    calls,               \* calls[t]: the remote create/remix calls task t issued, in order
    stream,              \* stream[s]: one progress connection
    next_id,             \* the next unused task id
    response,            \* the last HTTP response of a submission handler
    limit,               \* what this run of the model admits: tasks, streams, shot counts
    now,                 \* the wall clock, in whole seconds
    prompter,            \* a shot list and the prompt build_prompt made from it
    resizer,             \* the image resize_image works on
    stitcher             \* a sequence directory and the stitch made from it

vars == <<progress_queues, generation_results, queue, task, pushed, calls, stream,
          next_id, response, limit, now, prompter, resizer, stitcher>>

\* ------------------------------------------------------------- error texts
BillingText == "Billing hard limit has been reached"
ApiKeyText == "Incorrect API key provided"
JsonText == "Error code: 400 - {\"error\": {\"message\": \"Moderation blocked\"}}"
PlainText == "Connection error"
BillingMessage ==
    "OpenAI Billing Error: Your OpenAI account has reached its billing limit. Please add payment method or increase limits at https://platform.openai.com/account/billing"
ApiKeyMessage == "Invalid API Key: Please check your API key in backend/config.json"
JsonMessage == "Moderation blocked"

\* parse_openai_error: the user-friendly message for the text of an exception: the
\* billing wording first, then the key wording, then the message of a JSON body; any
\* other text comes back as it is
ParseOpenaiError(error_str) ==
    IF error_str = BillingText THEN BillingMessage
    ELSE IF error_str = ApiKeyText THEN ApiKeyMessage
    ELSE IF error_str = JsonText THEN JsonMessage
    ELSE error_str

\* str(e) of the exceptions the model raises
RaisedErrors == {BillingText, PlainText}

\* ------------------------------------------------------------ job results
\* timestamp: the second that names sequence_id and output_dir (0: neither exists)
InProgress(timestamp) ==
    [status |-> "in_progress", shots |-> <<>>, error |-> "", has_dir |-> TRUE,
     timestamp |-> timestamp]
ApiKeyError == [status |-> "error", shots |-> <<>>,
                error |-> "API key not configured or is empty", has_dir |-> FALSE,
                timestamp |-> 0]
RunnerError(error_msg) ==
    [status |-> "error", shots |-> <<>>, error |-> error_msg, has_dir |-> FALSE,
     timestamp |-> 0]
NoResults == [status |-> "none", shots |-> <<>>, error |-> "", has_dir |-> FALSE,
              timestamp |-> 0]
\* Shot Results numbered from 0
ShotResult_ZeroBased(i, vid) ==
    [shot_number |-> i - 1, video_id |-> vid, status |-> "completed"]
ShotResult(i, vid) == [shot_number |-> i, video_id |-> vid, status |-> "completed"]

IdleTask ==
    [pc |-> "idle", kind |-> "none", via |-> "none", n |-> 0, ref |-> FALSE,
     source |-> NoVideo, i |-> 0, previous_video |-> NoVideo, video |-> NoVideo,
     nprog |-> 0, results |-> NoResults, error_msg |-> "", cleanup |-> "none"]

IdleStream == [st |-> "idle", task_id |-> 0, relayed |-> <<>>, keepalives |-> 0,
               not_found |-> FALSE]

\* body: the result a response carries (NoResults: none)
NoResponse == [handler |-> "none", code |-> 0, task_id |-> 0, error |-> "",
               body |-> NoResults]

\* Nothing handed to build_prompt, resize_image or the stitcher
NoPrompter == [shots |-> <<>>, kind |-> "none", i |-> 0, prompt |-> <<>>]
NoResizer ==
    [st |-> "none", width |-> 0, height |-> 0, target_width |-> 0, target_height |-> 0,
     new_width |-> 0, new_height |-> 0, out_width |-> 0, out_height |-> 0]
NoStitcher ==
    [st |-> "none", dir_exists |-> FALSE, files |-> {}, sizes |-> <<>>, via |-> "none",
     called |-> FALSE, paths |-> <<>>, scaled |-> <<>>, output |-> FALSE, code |-> 0,
     error |-> ""]

\* The state after app.py is imported: both maps empty, no thread, no connection.
\* The run admits `tasks` submissions and `streams` progress connections, with shot
\* lists of the lengths `lens`.
AppInit(tasks, streams, lens) ==
    /\ limit = [tasks |-> tasks, streams |-> streams, lens |-> lens]
    /\ now = 1
    /\ progress_queues = {}
    /\ generation_results = <<>>
    /\ queue = [t \in Tasks |-> <<>>]
    /\ task = [t \in Tasks |-> IdleTask]
    /\ pushed = [t \in Tasks |-> <<>>]
    /\ calls = [t \in Tasks |-> <<>>]
    /\ stream = [s \in Streams |-> IdleStream]
    /\ next_id = 1
    /\ response = NoResponse

InitFor(tasks, streams, lens) ==
    /\ AppInit(tasks, streams, lens)
    /\ prompter = NoPrompter
    /\ resizer = NoResizer
    /\ stitcher = NoStitcher

InitWith(tasks, streams) == InitFor(tasks, streams, ShotLens)

\* One submission and one progress connection
Init == InitWith(1, 1)

\* q.put(item): the item goes on the queue of task t
Put(t, item) ==
    /\ queue' = [queue EXCEPT ![t] = Append(@, item)]
    /\ pushed' = [pushed EXCEPT ![t] = Append(@, item)]

\* ------------------------------------------------------ program constants
MaxShots == 3        \* the most shots a submission may carry

\* threading.Thread(target=...).start(): the worker of task t begins at the entry of
\* its job function
StartedTask(kind, via, n, ref, source) ==
    [IdleTask EXCEPT !.pc = "job_entry", !.kind = kind, !.via = via, !.n = n,
                     !.ref = ref, !.source = source]

Respond(handler, code, t, error) ==
    response' = [handler |-> handler, code |-> code, task_id |-> t, error |-> error,
                 body |-> NoResults]

\* The validation without its upper bound on the shot count
GenerateAccepts_NoMax(len) == len # 0

\* The validation of POST /api/generate: TRUE when the shot list is accepted
GenerateAccepts(len) == len # 0 /\ ~(len > MaxShots)

\* The message of the 400 response of POST /api/generate
GenerateError(len) ==
    IF len = 0 THEN "No shots provided" ELSE "Maximum 3 shots allowed"

\* POST /api/generate with a shot list of length len, with or without an image_1 upload
Generate(len, ref) ==
    IF ~GenerateAccepts(len)
    THEN /\ Respond("generate", 400, 0, GenerateError(len))
         /\ UNCHANGED <<progress_queues, generation_results, queue, task, pushed,
                        calls, stream, next_id, limit, now, prompter, resizer, stitcher>>
    ELSE /\ next_id <= limit.tasks
         /\ progress_queues' = progress_queues \cup {next_id}
         /\ task' = [task EXCEPT ![next_id] =
                        StartedTask("generate", "thread", len, ref, NoVideo)]
         /\ next_id' = next_id + 1
         /\ Respond("generate", 200, next_id, "")
         /\ UNCHANGED <<generation_results, queue, pushed, calls, stream, limit, now, prompter, resizer, stitcher>>

\* The branch test of POST /api/remix: a 'shots' list (len >= 0; -1 stands for no list)
\* of 1..3 entries takes the multi-shot branch
RemixIsMulti(len) == len >= 1 /\ len <= MaxShots

\* POST /api/remix: has_video says whether video_id is given, len is the length of
\* 'shots' (-1: not a list), shots_dialog whether every entry of 'shots' has a dialog,
\* top_dialog whether the top-level dialog field is given
Remix(has_video, len, shots_dialog, top_dialog) ==
    IF ~has_video
    THEN /\ Respond("remix", 400, 0, "video_id is required")
         /\ UNCHANGED <<progress_queues, generation_results, queue, task, pushed,
                        calls, stream, next_id, limit, now, prompter, resizer, stitcher>>
    ELSE /\ next_id <= limit.tasks
         /\ progress_queues' = progress_queues \cup {next_id}
         /\ next_id' = next_id + 1
         /\ UNCHANGED <<generation_results, queue, pushed, calls, stream, limit, now, prompter, resizer, stitcher>>
         /\ IF RemixIsMulti(len)
            THEN IF ~shots_dialog
                 THEN /\ Respond("remix", 400, next_id, "Each shot requires dialog")
                      /\ UNCHANGED task
                 ELSE /\ Respond("remix", 200, next_id, "")
                      /\ task' = [task EXCEPT ![next_id] =
                             StartedTask("remix_multi", "thread", len, FALSE, SourceVideo)]
            ELSE IF ~top_dialog
                 THEN /\ Respond("remix", 400, next_id, "dialog is required")
                      /\ UNCHANGED task
                 ELSE /\ Respond("remix", 200, next_id, "")
                      /\ task' = [task EXCEPT ![next_id] =
                             StartedTask("remix", "thread", 1, FALSE, SourceVideo)]

\* ------------------------------------------------------------ job functions
\* The three job functions of generator.py run the same steps; task[t].kind says which
\* one the worker of task t runs: "generate" (generate_video_sequence), "remix"
\* (remix_existing_video) or "remix_multi" (remix_video_sequence).

EntryOutcomes == {"ok", "no_key", "raise"}
CallOutcomes == {"ok", "raise"}

SetTask(t, rec) == task' = [task EXCEPT ![t] = rec]

\* Where an exception that leaves the job function lands: the except clause of the
\* thread's runner, or the direct caller
Escaped(t) == IF task[t].via = "thread" THEN "runner_except" ELSE "raised"

\* Entry of the job function up to the try block: load_api_key, the OpenAI client, the
\* output folder and the results dict. out = "no_key": the early return of the error
\* dict; out = "raise": one of these statements raises
JobEntry(t, out) ==
    /\ task[t].pc = "job_entry"
    /\ CASE out = "no_key" ->
              SetTask(t, [task[t] EXCEPT !.pc = "job_return", !.results = ApiKeyError])
         [] out = "raise" ->
              SetTask(t, [task[t] EXCEPT !.pc = Escaped(t)])
         [] OTHER ->
              SetTask(t, [task[t] EXCEPT !.pc = "loop", !.i = 1, !.results = InProgress(now),
                                         !.previous_video = task[t].source])
    /\ UNCHANGED <<progress_queues, generation_results, queue, pushed, calls, stream,
                   next_id, response, limit, now, prompter, resizer, stitcher>>

\* Every job function handing its loop index to build_prompt
PromptShotNumber_Index(kind, i) == i

\* The shot_number the job function hands to build_prompt for its shot i
PromptShotNumber(kind, i) == IF kind = "generate" THEN i ELSE 2

\* The loop body going to the remote call without putting shot_start
ShotStart_Silent(t) ==
    /\ task[t].pc = "loop"
    /\ task[t].i <= task[t].n
    /\ SetTask(t, [task[t] EXCEPT !.pc = "remote_call"])
    /\ UNCHANGED <<progress_queues, generation_results, queue, pushed, calls, stream,
                   next_id, response, limit, now, prompter, resizer, stitcher>>

\* Head of the loop body for shot i: build the prompt and put shot_start
ShotStart(t) ==
    /\ task[t].pc = "loop"
    /\ task[t].i <= task[t].n
    /\ Put(t, Event("shot_start", task[t].i, task[t].n, "job"))
    /\ SetTask(t, [task[t] EXCEPT !.pc = "remote_call"])
    /\ UNCHANGED <<progress_queues, generation_results, calls, stream, next_id, response, limit, now, prompter, resizer, stitcher>>

CreateParams(ref) ==
    {"model", "prompt", "size", "seconds"} \cup (IF ref THEN {"input_reference"} ELSE {})
\* A remix call that repeats the size of the create call
RemixParams_WithSize == {"video_id", "prompt", "size"}
RemixParams == {"video_id", "prompt"}
\* video_params["seconds"]; a remix call carries no duration
CreateSeconds == "12"
NoSeconds == ""

\* A create call issued for every shot of a generation job
RemoteCallFor_AlwaysCreate(t) ==
    LET r == task[t] IN
    IF r.kind = "generate"
    THEN [op |-> "create", shot |-> r.i, video_id |-> NoVideo,
          params |-> CreateParams(r.ref), seconds |-> CreateSeconds,
          prompt_shot_number |-> PromptShotNumber(r.kind, r.i)]
    ELSE [op |-> "remix", shot |-> r.i, video_id |-> r.previous_video,
          params |-> RemixParams, seconds |-> NoSeconds,
          prompt_shot_number |-> PromptShotNumber(r.kind, r.i)]

\* The remote call the job function issues for its shot i
RemoteCallFor(t) ==
    LET r == task[t] IN
    IF r.kind = "generate" /\ r.i = 1
    THEN [op |-> "create", shot |-> r.i, video_id |-> NoVideo,
          params |-> CreateParams(r.ref), seconds |-> CreateSeconds,
          prompt_shot_number |-> PromptShotNumber(r.kind, r.i)]
    ELSE [op |-> "remix", shot |-> r.i, video_id |-> r.previous_video,
          params |-> RemixParams, seconds |-> NoSeconds,
          prompt_shot_number |-> PromptShotNumber(r.kind, r.i)]

\* generate_video_sequence keeps the handle of the call as previous_video; the remix
\* functions keep their previous id until the download is done
AfterCall(t) ==
    IF task[t].kind = "generate" THEN NewVideoId(t, task[t].i) ELSE task[t].previous_video

\* videos.create / videos.remix for shot i. resized = FALSE: resize_image raises on the
\* reference image of shot 1, so no call is issued
RemoteCall(t, resized, out) ==
    /\ task[t].pc = "remote_call"
    /\ (~resized) => (task[t].kind = "generate" /\ task[t].i = 1 /\ task[t].ref)
    /\ IF ~resized
       THEN /\ SetTask(t, [task[t] EXCEPT !.pc = "job_except"])
            /\ UNCHANGED calls
       ELSE /\ calls' = [calls EXCEPT ![t] = Append(@, RemoteCallFor(t))]
            /\ IF out = "ok"
               THEN SetTask(t, [task[t] EXCEPT !.pc = "download", !.nprog = 0,
                                               !.video = NewVideoId(t, task[t].i),
                                               !.previous_video = AfterCall(t)])
               ELSE SetTask(t, [task[t] EXCEPT !.pc = "job_except"])
    /\ UNCHANGED <<progress_queues, generation_results, queue, pushed, stream, next_id,
                   response, limit, now, prompter, resizer, stitcher>>

\* progress_callback, called by the downloader during the transfer of shot i
DownloadProgress(t) ==
    /\ task[t].pc = "download"
    /\ task[t].nprog < MaxProgress
    /\ Put(t, Event("progress", task[t].i, task[t].n, "job"))
    /\ SetTask(t, [task[t] EXCEPT !.nprog = @ + 1])
    /\ UNCHANGED <<progress_queues, generation_results, calls, stream, next_id, response, limit, now, prompter, resizer, stitcher>>

\* download_sora_video returns the video it was given; its id is the handle's id
DownloadedId(video) == video

\* The previous id never moved: every remix of a sequence made from the source video
AfterDownload_KeepsSource(t) == task[t].previous_video

\* The previous id after the download of shot i: remix_video_sequence moves it to the
\* downloaded video
AfterDownload(t) ==
    IF task[t].kind = "remix_multi" THEN DownloadedId(task[t].video)
    ELSE task[t].previous_video

\* The shot finished without its shot_complete event
ShotComplete_NoEvent(t) ==
    /\ task[t].pc = "download"
    /\ SetTask(t, [task[t] EXCEPT
            !.pc = "loop", !.i = @ + 1, !.nprog = 0,
            !.results.shots = Append(@, ShotResult(task[t].i, DownloadedId(task[t].video))),
            !.previous_video = AfterDownload(t)])
    /\ UNCHANGED <<progress_queues, generation_results, queue, pushed, calls, stream,
                   next_id, response, limit, now, prompter, resizer, stitcher>>

\* The loop body putting shot_complete without appending the Shot Result
ShotComplete_NoResult(t) ==
    /\ task[t].pc = "download"
    /\ Put(t, Event("shot_complete", task[t].i, task[t].n, "job"))
    /\ SetTask(t, [task[t] EXCEPT
            !.pc = "loop", !.i = @ + 1, !.nprog = 0,
            !.previous_video = AfterDownload(t)])
    /\ UNCHANGED <<progress_queues, generation_results, calls, stream, next_id, response, limit, now, prompter, resizer, stitcher>>

\* download_sora_video returns: put shot_complete, append the Shot Result, next shot
ShotComplete(t) ==
    /\ task[t].pc = "download"
    /\ Put(t, Event("shot_complete", task[t].i, task[t].n, "job"))
    /\ SetTask(t, [task[t] EXCEPT
            !.pc = "loop", !.i = @ + 1, !.nprog = 0,
            !.results.shots = Append(@, ShotResult(task[t].i, DownloadedId(task[t].video))),
            !.previous_video = AfterDownload(t)])
    /\ UNCHANGED <<progress_queues, generation_results, calls, stream, next_id, response, limit, now, prompter, resizer, stitcher>>

\* download_sora_video raises
DownloadFails(t) ==
    /\ task[t].pc = "download"
    /\ SetTask(t, [task[t] EXCEPT !.pc = "job_except"])
    /\ UNCHANGED <<progress_queues, generation_results, queue, pushed, calls, stream,
                   next_id, response, limit, now, prompter, resizer, stitcher>>

\* The loop is over: results["status"] = "completed", return results
JobCompleted(t) ==
    /\ task[t].pc = "loop"
    /\ task[t].i > task[t].n
    /\ SetTask(t, [task[t] EXCEPT !.pc = "job_return", !.results.status = "completed"])
    /\ UNCHANGED <<progress_queues, generation_results, queue, pushed, calls, stream,
                   next_id, response, limit, now, prompter, resizer, stitcher>>

\* The except clause going on with the next shot
JobExcept_Continues(t, error_str) ==
    /\ task[t].pc = "job_except"
    /\ Put(t, ErrorEvent(ParseOpenaiError(error_str), error_str, "job"))
    /\ SetTask(t, [task[t] EXCEPT !.pc = "loop", !.i = @ + 1, !.results.status = "error",
                                  !.results.error = error_str])
    /\ UNCHANGED <<progress_queues, generation_results, calls, stream, next_id, response, limit, now, prompter, resizer, stitcher>>

\* except Exception in the job function, error_str = str(e): status error, put the
\* error event, return
JobExcept(t, error_str) ==
    /\ task[t].pc = "job_except"
    /\ Put(t, ErrorEvent(ParseOpenaiError(error_str), error_str, "job"))
    /\ SetTask(t, [task[t] EXCEPT !.pc = "job_return", !.results.status = "error",
                                  !.results.error = error_str])
    /\ UNCHANGED <<progress_queues, generation_results, calls, stream, next_id, response, limit, now, prompter, resizer, stitcher>>

\* ------------------------------------------------------------- task runner
\* run_generation_in_thread, run_remix_in_thread and remix.run_multi wrap the job
\* function in the same try / except / finally.

\* if reference_images: the runner of a generation that was given a reference image has
\* temporary image files to delete once the job function has returned
HasTempImages(t) == task[t].kind = "generate" /\ task[t].ref

\* A failing os.remove leaving the try block of the runner
RunnerCleanup_Raises(t, orig_fails, jpeg_fails) ==
    /\ task[t].pc = "job_return"
    /\ task[t].via = "thread"
    /\ HasTempImages(t)
    /\ task[t].cleanup = "none"
    /\ IF orig_fails \/ jpeg_fails
       THEN SetTask(t, [task[t] EXCEPT !.pc = "runner_except", !.cleanup = "failed"])
       ELSE SetTask(t, [task[t] EXCEPT !.cleanup = "removed"])
    /\ UNCHANGED <<progress_queues, generation_results, queue, pushed, calls, stream,
                   next_id, response, limit, now, prompter, resizer, stitcher>>

\* The job function returned: os.remove of the temporary image and of its .jpg version,
\* each inside try / except: pass. orig_fails, jpeg_fails: the os.remove raises
RunnerCleanup(t, orig_fails, jpeg_fails) ==
    /\ task[t].pc = "job_return"
    /\ task[t].via = "thread"
    /\ HasTempImages(t)
    /\ task[t].cleanup = "none"
    /\ SetTask(t, [task[t] EXCEPT
            !.cleanup = IF orig_fails \/ jpeg_fails THEN "failed" ELSE "removed"])
    /\ UNCHANGED <<progress_queues, generation_results, queue, pushed, calls, stream,
                   next_id, response, limit, now, prompter, resizer, stitcher>>

RunnerStore_MarksCompleted(t) ==
    /\ task[t].pc = "job_return"
    /\ task[t].via = "thread"
    /\ HasTempImages(t) => task[t].cleanup # "none"
    /\ generation_results' =
           (t :> [task[t].results EXCEPT !.status = "completed"]) @@ generation_results
    /\ SetTask(t, [task[t] EXCEPT !.pc = "runner_complete"])
    /\ UNCHANGED <<progress_queues, queue, pushed, calls, stream, next_id, response, limit, now, prompter, resizer, stitcher>>

\* The job function returned: result_container and generation_results[task_id] = result
RunnerStore(t) ==
    /\ task[t].pc = "job_return"
    /\ task[t].via = "thread"
    /\ HasTempImages(t) => task[t].cleanup # "none"
    /\ generation_results' = (t :> task[t].results) @@ generation_results
    /\ SetTask(t, [task[t] EXCEPT !.pc = "runner_complete"])
    /\ UNCHANGED <<progress_queues, queue, pushed, calls, stream, next_id, response, limit, now, prompter, resizer, stitcher>>

\* q.put({'type': 'complete', 'result': result})
RunnerComplete(t) ==
    /\ task[t].pc = "runner_complete"
    /\ Put(t, Event("complete", 0, 0, "runner"))
    /\ SetTask(t, [task[t] EXCEPT !.pc = "finally"])
    /\ UNCHANGED <<progress_queues, generation_results, calls, stream, next_id, response, limit, now, prompter, resizer, stitcher>>

\* except Exception in the runner, error_msg = str(e):
\* q.put({'type': 'error', 'message': error_msg})
RunnerExceptPut(t, error_msg) ==
    /\ task[t].pc = "runner_except"
    /\ Put(t, ErrorEvent(error_msg, "", "runner"))
    /\ SetTask(t, [task[t] EXCEPT !.pc = "runner_except_store", !.error_msg = error_msg])
    /\ UNCHANGED <<progress_queues, generation_results, calls, stream, next_id, response, limit, now, prompter, resizer, stitcher>>

\* The except clause replacing the whole result map by the entry of its own task
RunnerExceptStore_DropsOthers(t) ==
    /\ task[t].pc = "runner_except_store"
    /\ generation_results' = (t :> RunnerError(task[t].error_msg))
    /\ SetTask(t, [task[t] EXCEPT !.pc = "finally"])
    /\ UNCHANGED <<progress_queues, queue, pushed, calls, stream, next_id, response, limit, now, prompter, resizer, stitcher>>

\* The except clause ending the thread without reaching q.put(None)
RunnerExceptStore_NoSentinel(t) ==
    /\ task[t].pc = "runner_except_store"
    /\ generation_results' = (t :> RunnerError(task[t].error_msg)) @@ generation_results
    /\ SetTask(t, [task[t] EXCEPT !.pc = "done"])
    /\ UNCHANGED <<progress_queues, queue, pushed, calls, stream, next_id, response, limit, now, prompter, resizer, stitcher>>

\* ... then generation_results[task_id] = {'status': 'error', 'error': error_msg}
RunnerExceptStore(t) ==
    /\ task[t].pc = "runner_except_store"
    /\ generation_results' = (t :> RunnerError(task[t].error_msg)) @@ generation_results
    /\ SetTask(t, [task[t] EXCEPT !.pc = "finally"])
    /\ UNCHANGED <<progress_queues, queue, pushed, calls, stream, next_id, response, limit, now, prompter, resizer, stitcher>>

\* The finally clause deleting the queue of its task from progress_queues
RunnerFinally_Unregisters(t) ==
    /\ task[t].pc = "finally"
    /\ Put(t, Sentinel)
    /\ SetTask(t, [task[t] EXCEPT !.pc = "done"])
    /\ progress_queues' = progress_queues \ {t}
    /\ UNCHANGED <<generation_results, calls, stream, next_id, response, limit, now, prompter, resizer, stitcher>>

\* finally: q.put(None)
RunnerFinally(t) ==
    /\ task[t].pc = "finally"
    /\ Put(t, Sentinel)
    /\ SetTask(t, [task[t] EXCEPT !.pc = "done"])
    /\ UNCHANGED <<progress_queues, generation_results, calls, stream, next_id, response, limit, now, prompter, resizer, stitcher>>

\* --------------------------------------------------------- progress stream
SetStream(s, rec) == stream' = [stream EXCEPT ![s] = rec]

\* The lookup making an entry for an id it does not find, and waiting on it
StreamOpen_Registers(s, t) ==
    /\ stream[s].st = "idle"
    /\ s <= limit.streams
    /\ SetStream(s, [stream[s] EXCEPT !.st = "open", !.task_id = t])
    /\ progress_queues' = progress_queues \cup {t}
    /\ UNCHANGED <<generation_results, queue, task, pushed, calls,
                   next_id, response, limit, now, prompter, resizer, stitcher>>

\* GET /api/progress/<task_id>, first resumption of generate(): the lookup of the queue
StreamOpen(s, t) ==
    /\ stream[s].st = "idle"
    /\ s <= limit.streams
    /\ IF t \notin progress_queues
       THEN SetStream(s, [stream[s] EXCEPT !.st = "closed", !.task_id = t,
                                           !.not_found = TRUE])
       ELSE SetStream(s, [stream[s] EXCEPT !.st = "open", !.task_id = t])
    /\ UNCHANGED <<progress_queues, generation_results, queue, task, pushed, calls,
                   next_id, response, limit, now, prompter, resizer, stitcher>>

\* The stream ending on None without deleting progress_queues[task_id]
StreamGet_NoCleanup(s) ==
    LET t == stream[s].task_id IN
    /\ stream[s].st = "open"
    /\ queue[t] # <<>>
    /\ queue' = [queue EXCEPT ![t] = Tail(@)]
    /\ IF Head(queue[t]) = Sentinel
       THEN SetStream(s, [stream[s] EXCEPT !.st = "closed"])
       ELSE SetStream(s, [stream[s] EXCEPT !.relayed = Append(@, Head(queue[t]))])
    /\ UNCHANGED <<progress_queues, generation_results, task, pushed, calls, next_id,
                   response, limit, now, prompter, resizer, stitcher>>

\* The stream's cleanup deleting the result of the task together with its queue
StreamGet_DropsResult(s) ==
    LET t == stream[s].task_id IN
    /\ stream[s].st = "open"
    /\ queue[t] # <<>>
    /\ queue' = [queue EXCEPT ![t] = Tail(@)]
    /\ IF Head(queue[t]) = Sentinel
       THEN /\ SetStream(s, [stream[s] EXCEPT !.st = "closed"])
            /\ progress_queues' = progress_queues \ {t}
            /\ generation_results' =
                   [u \in DOMAIN generation_results \ {t} |-> generation_results[u]]
       ELSE /\ SetStream(s, [stream[s] EXCEPT !.relayed = Append(@, Head(queue[t]))])
            /\ UNCHANGED <<progress_queues, generation_results>>
    /\ UNCHANGED <<task, pushed, calls, next_id, response, limit, now, prompter, resizer, stitcher>>

\* The stream taking a progress event off the queue without relaying it
StreamGet_DropsProgress(s) ==
    LET t == stream[s].task_id IN
    /\ stream[s].st = "open"
    /\ queue[t] # <<>>
    /\ queue' = [queue EXCEPT ![t] = Tail(@)]
    /\ IF Head(queue[t]) = Sentinel
       THEN /\ SetStream(s, [stream[s] EXCEPT !.st = "closed"])
            /\ progress_queues' = progress_queues \ {t}
       ELSE /\ IF Head(queue[t]).type = "progress"
               THEN UNCHANGED stream
               ELSE SetStream(s, [stream[s] EXCEPT !.relayed = Append(@, Head(queue[t]))])
            /\ UNCHANGED progress_queues
    /\ UNCHANGED <<generation_results, task, pushed, calls, next_id, response, limit, now, prompter, resizer, stitcher>>

\* q.get(timeout=1) returns an item: a real event is relayed; None ends the loop and the
\* stream deletes progress_queues[task_id]
StreamGet(s) ==
    LET t == stream[s].task_id IN
    /\ stream[s].st = "open"
    /\ queue[t] # <<>>
    /\ queue' = [queue EXCEPT ![t] = Tail(@)]
    /\ IF Head(queue[t]) = Sentinel
       THEN /\ SetStream(s, [stream[s] EXCEPT !.st = "closed"])
            /\ progress_queues' = progress_queues \ {t}
       ELSE /\ SetStream(s, [stream[s] EXCEPT !.relayed = Append(@, Head(queue[t]))])
            /\ UNCHANGED progress_queues
    /\ UNCHANGED <<generation_results, task, pushed, calls, next_id, response, limit, now, prompter, resizer, stitcher>>

\* The timeout ending the stream as if the sentinel had arrived
StreamKeepalive_Closes(s) ==
    /\ stream[s].st = "open"
    /\ queue[stream[s].task_id] = <<>>
    /\ stream[s].keepalives < MaxKeepalive
    /\ SetStream(s, [stream[s] EXCEPT !.keepalives = @ + 1, !.st = "closed"])
    /\ progress_queues' = progress_queues \ {stream[s].task_id}
    /\ UNCHANGED <<generation_results, queue, task, pushed, calls,
                   next_id, response, limit, now, prompter, resizer, stitcher>>

\* q.get(timeout=1) raises queue.Empty: a keepalive frame, and the loop goes on
StreamKeepalive(s) ==
    /\ stream[s].st = "open"
    /\ queue[stream[s].task_id] = <<>>
    /\ stream[s].keepalives < MaxKeepalive
    /\ SetStream(s, [stream[s] EXCEPT !.keepalives = @ + 1])
    /\ UNCHANGED <<progress_queues, generation_results, queue, task, pushed, calls,
                   next_id, response, limit, now, prompter, resizer, stitcher>>

\* ----------------------------------------------------------- specification
\* The requests a client sends. A field the handler never reads on the path the request
\* takes is left out of the choice: the image of an empty shot list, the shots of a remix
\* without video_id, the top-level dialog of a multi-shot remix, the shot dialogs of a
\* request that takes the single-shot branch.
GenerateRequests ==
    {r \in [len : ShotLens, ref : BOOLEAN] : r.ref => r.len > 0}
RemixRequests ==
    {r \in [has_video : BOOLEAN, len : {-1} \cup ShotLens,
            shots_dialog : BOOLEAN, top_dialog : BOOLEAN] :
        /\ ~r.has_video => (r.len = -1 /\ ~r.shots_dialog /\ ~r.top_dialog)
        /\ (r.len >= 1 /\ r.len <= MaxShots) => ~r.top_dialog
        /\ ~(r.len >= 1 /\ r.len <= MaxShots) => ~r.shots_dialog}

SubmitGenerate ==
    \E r \in GenerateRequests : r.len \in limit.lens /\ Generate(r.len, r.ref)
SubmitRemix ==
    \E r \in RemixRequests :
        /\ r.len \in {-1} \cup limit.lens
        /\ Remix(r.has_video, r.len, r.shots_dialog, r.top_dialog)

Submit == SubmitGenerate \/ SubmitRemix

Job(t) ==
    \/ \E out \in EntryOutcomes : JobEntry(t, out)
    \/ ShotStart(t)
    \/ \E resized \in BOOLEAN, out \in CallOutcomes : RemoteCall(t, resized, out)
    \/ DownloadProgress(t)
    \/ ShotComplete(t)
    \/ DownloadFails(t)
    \/ JobCompleted(t)
    \/ \E error_str \in RaisedErrors : JobExcept(t, error_str)

Runner(t) ==
    \/ \E orig_fails, jpeg_fails \in BOOLEAN : RunnerCleanup(t, orig_fails, jpeg_fails)
    \/ RunnerStore(t)
    \/ RunnerComplete(t)
    \/ \E error_msg \in RaisedErrors : RunnerExceptPut(t, error_msg)
    \/ RunnerExceptStore(t)
    \/ RunnerFinally(t)

Worker(t) == Job(t) \/ Runner(t)

Reader(s) ==
    \/ \E t \in Tasks : StreamOpen(s, t)
    \/ StreamGet(s)
    \/ StreamKeepalive(s)

Next ==
    \/ Submit
    \/ \E t \in Tasks : Worker(t)
    \/ \E s \in Streams : Reader(s)

Spec == Init /\ [][Next]_vars

\* A caller other than the handlers of app.py calls a job function itself, with a queue
\* of its own and a shot list of any length (remix_existing_video takes one shot)
DirectCall(kind, n, ref) ==
    /\ next_id <= limit.tasks
    /\ kind = "remix" => n = 1
    /\ ref => kind = "generate"
    /\ task' = [task EXCEPT ![next_id] =
           StartedTask(kind, "direct", n, ref,
                       IF kind = "generate" THEN NoVideo ELSE SourceVideo)]
    /\ next_id' = next_id + 1
    /\ UNCHANGED <<progress_queues, generation_results, queue, pushed, calls, stream,
                   response, limit, now, prompter, resizer, stitcher>>

NextJob ==
    \/ \E kind \in {"generate", "remix", "remix_multi"}, n \in ShotLens, ref \in BOOLEAN :
          DirectCall(kind, n, ref)
    \/ \E t \in Tasks : Job(t)

\* The job functions called on their own, without the handlers' validation
JobSpec == Init /\ [][NextJob]_vars

\* time.time() moves on to the next whole second
Tick ==
    /\ now < MaxClock
    /\ now' = now + 1
    /\ UNCHANGED <<progress_queues, generation_results, queue, task, pushed, calls,
                   stream, next_id, response, limit, prompter, resizer, stitcher>>

\* The handler taking the result out of the map as it returns it
GetResult_Pops(t) ==
    /\ response' = IF t \notin DOMAIN generation_results
                   THEN [handler |-> "get_result", code |-> 404, task_id |-> t,
                         error |-> "not_found", body |-> NoResults]
                   ELSE [handler |-> "get_result", code |-> 200, task_id |-> t,
                         error |-> "", body |-> generation_results[t]]
    /\ generation_results' =
           [u \in DOMAIN generation_results \ {t} |-> generation_results[u]]
    /\ UNCHANGED <<progress_queues, queue, task, pushed, calls, stream, next_id, limit, now, prompter, resizer, stitcher>>

\* GET /api/generate-result/<task_id>: 404 not_found while the map has no entry for the
\* id, the stored result after
GetResult(t) ==
    /\ response' = IF t \notin DOMAIN generation_results
                   THEN [handler |-> "get_result", code |-> 404, task_id |-> t,
                         error |-> "not_found", body |-> NoResults]
                   ELSE [handler |-> "get_result", code |-> 200, task_id |-> t,
                         error |-> "", body |-> generation_results[t]]
    /\ UNCHANGED <<progress_queues, generation_results, queue, task, pushed, calls,
                   stream, next_id, limit, now, prompter, resizer, stitcher>>

\* One job, its progress connection, and clients fetching results at any moment
NextRead ==
    \/ Next
    \/ \E t \in Tasks : GetResult(t)

ReadSpec == InitFor(1, 1, {0, 2}) /\ [][NextRead]_vars

\* Two clients posting one-shot generation requests at once while the clock runs: two
\* workers side by side
NextPair ==
    \/ SubmitGenerate
    \/ \E t \in Tasks : Worker(t)
    \/ Tick

PairSpec == InitFor(2, 0, {1}) /\ [][NextPair]_vars

\* Every started worker thread keeps running: the scheduler is fair to it and each
\* external call returns or raises. The submissions are an empty shot list, two shots
\* and four shots.
FairSpec ==
    /\ InitFor(1, 1, {0, 2, 4})
    /\ [][Next]_vars
    /\ \A t \in Tasks : WF_vars(Worker(t))

\* ---------------------------------------------------------- prompt builder
\* A prompt is a sequence of tokens: Lit(s) is text written in build_prompt, a field
\* value stands for itself. A field of a shot is the empty string (or absent), a
\* string of blanks, or a text; the text of field f of shot k is TextOf(k, f).
Fields == {"characters", "environment", "lighting", "camera_angles", "dialog", "voice"}
FallbackFields == {"characters", "environment", "lighting", "camera_angles", "voice"}
Blank == <<"blank", 0, "">>
Spaces == <<"spaces", 0, "">>
TextOf(k, f) == <<"text", k, f>>
Lit(s) == <<"lit", 0, s>>

\* str.strip(): a string of blanks becomes the empty string
Strip(v) == IF v = Spaces THEN Blank ELSE v
\* truth value of a string: any non-empty string, one of blanks included
Truthy(v) == v # Blank

TheSame == Lit("The same ")
InTheSame == Lit("in the same ")
SameVoice == Lit("Use the same speaking voice: ")
SameVoiceAsPrevious ==
    Lit("Use the exact same speaking voice, accent, delivery, and microphone tone as the previous shot.")
MaintainingSame ==
    Lit("maintaining exact same appearance, clothing, tone, and speaking style from previous shot")
ChangeDialog == Lit("Maintain background audio and ambient sounds. Change only the dialog to: '")

\* ". ".join(prompt_parts)
RECURSIVE Join(_)
Join(parts) ==
    IF parts = <<>> THEN <<>>
    ELSE IF Len(parts) = 1 THEN Head(parts)
    ELSE Head(parts) \o <<Lit(". ")>> \o Join(Tail(parts))

\* The part of a field: nothing when the value is empty
PartOf(value, tokens) == IF value = Blank THEN <<>> ELSE <<tokens>>

\* shot_data.get(f, "").strip(), and shot 1's stripped value when that is empty
OwnOrFirst(shot_data, shots_data, f) ==
    IF Strip(shot_data[f]) = Blank /\ Len(shots_data) > 0
    THEN Strip(shots_data[1][f])
    ELSE Strip(shot_data[f])

VoiceClause(voice_spec) ==
    IF voice_spec # Blank
    THEN <<SameVoice, voice_spec,
           Lit(". Maintain identical microphone tone and recording chain.")>>
    ELSE <<SameVoiceAsPrevious>>

\* The branch shot_number > 1
RemixStyleParts(shot_data, shots_data) ==
    LET characters == OwnOrFirst(shot_data, shots_data, "characters")
        environment == OwnOrFirst(shot_data, shots_data, "environment")
        lighting == OwnOrFirst(shot_data, shots_data, "lighting")
        camera_angles == OwnOrFirst(shot_data, shots_data, "camera_angles")
        voice_spec == OwnOrFirst(shot_data, shots_data, "voice")
    IN  PartOf(characters, <<TheSame, characters>>)
        \o PartOf(environment, <<InTheSame, environment>>)
        \o PartOf(lighting, <<lighting>>)
        \o PartOf(camera_angles, <<camera_angles>>)
        \o <<VoiceClause(voice_spec)>>
        \o <<<<MaintainingSame>>>>
        \o (IF Truthy(shot_data.dialog)
            THEN <<<<ChangeDialog, shot_data.dialog, Lit("'")>>>>
            ELSE <<>>)

\* The character description that opens the prompt of shot 1, prefixed as in a remix
PlainCharacters_TheSame(value) ==
    IF Truthy(value) THEN <<<<TheSame, value>>>> ELSE <<>>

\* if shot_data.get("characters"): prompt_parts.append(f"{shot_data['characters']}")
PlainCharacters(value) ==
    IF Truthy(value) THEN <<<<value>>>> ELSE <<>>

\* The branch of shot 1: the values as they are, not stripped
PlainParts(shot_data) ==
    PlainCharacters(shot_data.characters)
    \o (IF Truthy(shot_data.environment)
        THEN <<<<Lit("in "), shot_data.environment>>>> ELSE <<>>)
    \o (IF Truthy(shot_data.lighting) THEN <<<<shot_data.lighting>>>> ELSE <<>>)
    \o (IF Truthy(shot_data.camera_angles) THEN <<<<shot_data.camera_angles>>>> ELSE <<>>)
    \o (IF Truthy(shot_data.dialog)
        THEN <<<<Lit("'"), shot_data.dialog, Lit("'")>>>> ELSE <<>>)
    \o (IF Strip(shot_data.voice) # Blank
        THEN <<<<Lit("Speaking voice: "), Strip(shot_data.voice),
                 Lit(". Microphone tone and recording chain should be consistent across shots.")>>>>
        ELSE <<>>)

BuildPrompt(shot_data, shot_number, shots_data) ==
    IF shot_number > 1
    THEN Join(RemixStyleParts(shot_data, shots_data))
    ELSE Join(PlainParts(shot_data))

\* The shot lists a client submits: shot 1 with each field empty or a text, the later
\* shots alike, each of their fields empty, blanks or a text, at most MaxSpaces of them
\* blanks
FirstTemplates == [Fields -> {"blank", "text"}]
LaterTemplates ==
    {tpl \in [Fields -> {"blank", "spaces", "text"}] :
        /\ tpl["dialog"] # "spaces"
        /\ Cardinality({f \in Fields : tpl[f] = "spaces"}) <= MaxSpaces}
BlankTemplate == [f \in Fields |-> "blank"]
ShotOf(tpl, k) ==
    [f \in Fields |-> IF tpl[f] = "text" THEN TextOf(k, f)
                      ELSE IF tpl[f] = "spaces" THEN Spaces ELSE Blank]
ShotLists ==
    {[k \in 1..n |-> ShotOf(IF k = 1 THEN first ELSE later, k)] :
        n \in 1..MaxShots, first \in FirstTemplates, later \in LaterTemplates}

\* remix(): the shot dict the handler builds from the request; it has no voice entry
NormalizedShot(s) == [s EXCEPT !["voice"] = Blank]

\* The shot list and shot number each job function hands to build_prompt for its shot i:
\* generate_video_sequence the list as submitted, the remix functions the one shot
\* alone, as the handler normalized it
PromptArgs(kind, shots_data, i) ==
    IF kind = "generate"
    THEN [shot_data |-> shots_data[i], shots_data |-> shots_data]
    ELSE [shot_data |-> NormalizedShot(shots_data[i]),
          shots_data |-> <<NormalizedShot(shots_data[i])>>]

\* A job of the given kind builds the prompt of its shot i. The remix handler admits
\* only shots with a dialog, and a single remix has one shot.
BuildFor(kind, i) ==
    /\ i \in DOMAIN prompter.shots
    /\ kind = "remix" => Len(prompter.shots) = 1
    /\ kind # "generate" => \A k \in DOMAIN prompter.shots : Truthy(prompter.shots[k].dialog)
    /\ prompter' = [prompter EXCEPT
           !.kind = kind, !.i = i,
           !.prompt = LET args == PromptArgs(kind, prompter.shots, i)
                      IN  BuildPrompt(args.shot_data, PromptShotNumber(kind, i),
                                      args.shots_data)]
    /\ UNCHANGED <<progress_queues, generation_results, queue, task, pushed, calls,
                   stream, next_id, response, limit, now, resizer, stitcher>>

PromptInit ==
    /\ AppInit(0, 0, {})
    /\ prompter \in {[NoPrompter EXCEPT !.shots = shots] : shots \in ShotLists}
    /\ resizer = NoResizer
    /\ stitcher = NoStitcher

NextPrompt ==
    \E kind \in {"generate", "remix", "remix_multi"}, i \in 1..MaxShots : BuildFor(kind, i)

\* build_prompt on its own, called the way the three job functions call it
PromptSpec == PromptInit /\ [][NextPrompt]_vars

\* ------------------------------------------------------------ image resizer
\* Sizes are in pixels, scaled down to 1..MaxDim. A target is a video frame size of at
\* least 2 pixels each way.
ImageDims == 1..MaxDim
TargetDims == 2..MaxDim

\* scale = max(target_width / width, target_height / height): TRUE when the width ratio
\* is the larger one (or both are equal)
ScaleByWidth(width, height, target_width, target_height) ==
    target_width * height >= target_height * width

\* int(a * (num / den)) in floating point: the integer part of a * num / den, and where
\* that product is a whole number the rounding of num / den can leave the float just
\* below it, so that int() gives one less (lost says whether it does)
ScaledInt(a, num, den, lost) ==
    IF (a * num) % den = 0 /\ lost THEN (a * num) \div den - 1 ELSE (a * num) \div den

\* new_width, new_height = int(width * scale), int(height * scale)
ScaledSize(width, height, target_width, target_height, lost_w, lost_h) ==
    IF ScaleByWidth(width, height, target_width, target_height)
    THEN <<ScaledInt(width, target_width, width, lost_w),
           ScaledInt(height, target_width, width, lost_h)>>
    ELSE <<ScaledInt(width, target_height, height, lost_w),
           ScaledInt(height, target_height, height, lost_h)>>

\* A crop box that takes what is left between equal margins
CropBox_Symmetric(new_width, new_height, target_width, target_height) ==
    LET left == (new_width - target_width) \div 2
        top == (new_height - target_height) \div 2
    IN  [left |-> left, top |-> top, right |-> new_width - left,
         bottom |-> new_height - top]

\* left, top and the box handed to img_resized.crop
CropBox(new_width, new_height, target_width, target_height) ==
    LET left == (new_width - target_width) \div 2
        top == (new_height - target_height) \div 2
    IN  [left |-> left, top |-> top, right |-> left + target_width,
         bottom |-> top + target_height]

\* Image.crop(box): the image it returns has the size of the box, also where the box
\* reaches outside the source
CroppedSize(box) == <<box.right - box.left, box.bottom - box.top>>

\* img.resize((new_width, new_height))
ResizeScale(lost_w, lost_h) ==
    /\ resizer.st = "opened"
    /\ LET size == ScaledSize(resizer.width, resizer.height, resizer.target_width,
                              resizer.target_height, lost_w, lost_h)
       IN  resizer' = [resizer EXCEPT !.st = "resized", !.new_width = size[1],
                                      !.new_height = size[2]]
    /\ UNCHANGED <<progress_queues, generation_results, queue, task, pushed, calls,
                   stream, next_id, response, limit, now, prompter, stitcher>>

\* img_resized.crop(...) and the save of the JPEG
ResizeCrop ==
    /\ resizer.st = "resized"
    /\ LET size == CroppedSize(CropBox(resizer.new_width, resizer.new_height,
                                       resizer.target_width, resizer.target_height))
       IN  resizer' = [resizer EXCEPT !.st = "cropped", !.out_width = size[1],
                                      !.out_height = size[2]]
    /\ UNCHANGED <<progress_queues, generation_results, queue, task, pushed, calls,
                   stream, next_id, response, limit, now, prompter, stitcher>>

\* resize_image(image_path, target_size) on an image of any size
ResizerInit ==
    /\ AppInit(0, 0, {})
    /\ prompter = NoPrompter
    /\ stitcher = NoStitcher
    /\ resizer \in {[NoResizer EXCEPT !.st = "opened", !.width = w, !.height = h,
                                      !.target_width = tw, !.target_height = th] :
                       w \in ImageDims, h \in ImageDims, tw \in TargetDims, th \in TargetDims}

NextResizer ==
    \/ \E lost_w \in BOOLEAN, lost_h \in BOOLEAN : ResizeScale(lost_w, lost_h)
    \/ ResizeCrop

ResizerSpec == ResizerInit /\ [][NextResizer]_vars

\* ------------------------------------------------------------ video stitcher
FrameWidth == 1024
FrameHeight == 1792
ShotFiles == 1..MaxShots       \* shot_1.mp4 .. shot_3.mp4 of a sequence directory
MissingPath == 0               \* a path that is no file
ClipSizes == {<<720, 1280>>, <<1280, 720>>, <<1024, 1792>>, <<2048, 2048>>}

\* A clip scaled by the larger ratio, filling the frame
ClipScaledSize_Fill(clip_w, clip_h, lost_w, lost_h) ==
    IF FrameWidth * clip_h >= FrameHeight * clip_w
    THEN <<ScaledInt(clip_w, FrameWidth, clip_w, lost_w),
           ScaledInt(clip_h, FrameWidth, clip_w, lost_h)>>
    ELSE <<ScaledInt(clip_w, FrameHeight, clip_h, lost_w),
           ScaledInt(clip_h, FrameHeight, clip_h, lost_h)>>

\* scale = min(target_w / clip_w, target_h / clip_h); new_width = int(clip_w * scale),
\* new_height = int(clip_h * scale)
ClipScaledSize(clip_w, clip_h, lost_w, lost_h) ==
    IF FrameWidth * clip_h <= FrameHeight * clip_w
    THEN <<ScaledInt(clip_w, FrameWidth, clip_w, lost_w),
           ScaledInt(clip_h, FrameWidth, clip_w, lost_h)>>
    ELSE <<ScaledInt(clip_w, FrameHeight, clip_h, lost_w),
           ScaledInt(clip_h, FrameHeight, clip_h, lost_h)>>

\* The paths of video_paths that exist, in order
ExistingOf(paths, files) == SelectSeq(paths, LAMBDA p : p \in files)

\* stitch_videos(video_paths, output_path): the clips of the existing paths, each scaled
\* into the frame; no clip: ValueError before anything is written. write_fails: the
\* encoder raises.
StitchVideos(st, paths, lost_w, lost_h, write_fails) ==
    LET clips == ExistingOf(paths, st.files)
        scaled == [k \in DOMAIN clips |->
                     ClipScaledSize(st.sizes[clips[k]][1], st.sizes[clips[k]][2],
                                    lost_w, lost_h)]
    IN  IF clips = <<>>
        THEN [st EXCEPT !.st = "done", !.called = TRUE, !.paths = paths,
                        !.error = "No valid video clips to stitch"]
        ELSE [st EXCEPT !.st = "done", !.called = TRUE, !.paths = paths,
                        !.scaled = scaled, !.output = ~write_fails,
                        !.error = IF write_fails THEN "write failed" ELSE ""]

\* The shot files the endpoint finds: shot_1.mp4 .. shot_3.mp4 that exist, in order
RECURSIVE ShotFilesFrom(_, _)
ShotFilesFrom(i, files) ==
    IF i > MaxShots THEN <<>>
    ELSE (IF i \in files THEN <<i>> ELSE <<>>) \o ShotFilesFrom(i + 1, files)

\* POST /api/stitch/<sequence_id>
Stitch(lost_w, lost_h, write_fails) ==
    /\ stitcher.st = "ready"
    /\ stitcher' =
          IF ~stitcher.dir_exists
          THEN [stitcher EXCEPT !.st = "done", !.via = "endpoint", !.code = 404,
                                !.error = "Sequence not found"]
          ELSE IF ShotFilesFrom(1, stitcher.files) = <<>>
          THEN [stitcher EXCEPT !.st = "done", !.via = "endpoint", !.code = 400,
                                !.error = "No videos to stitch"]
          ELSE LET r == StitchVideos([stitcher EXCEPT !.via = "endpoint"],
                                     ShotFilesFrom(1, stitcher.files),
                                     lost_w, lost_h, write_fails)
               IN  [r EXCEPT !.code = IF r.error = "" THEN 200 ELSE 500]
    /\ UNCHANGED <<progress_queues, generation_results, queue, task, pushed, calls,
                   stream, next_id, response, limit, now, prompter, resizer>>

\* stitch_videos called with a path list of the caller's own
StitchDirect(paths, lost_w, lost_h, write_fails) ==
    /\ stitcher.st = "ready"
    /\ stitcher' = StitchVideos([stitcher EXCEPT !.via = "direct"], paths,
                                lost_w, lost_h, write_fails)
    /\ UNCHANGED <<progress_queues, generation_results, queue, task, pushed, calls,
                   stream, next_id, response, limit, now, prompter, resizer>>

\* Path lists of up to two paths, files of the directory or not
PathLists ==
    {<<>>} \cup {<<p>> : p \in {MissingPath} \cup ShotFiles}
           \cup {<<p, q>> : p \in {MissingPath} \cup ShotFiles, q \in {MissingPath} \cup ShotFiles}

\* A sequence directory (or none) with any of its shot files, each clip of some size
StitcherInit ==
    /\ AppInit(0, 0, {})
    /\ prompter = NoPrompter
    /\ resizer = NoResizer
    /\ \E dir_exists \in BOOLEAN, files \in SUBSET ShotFiles, sizes \in [ShotFiles -> ClipSizes] :
          /\ ~dir_exists => files = {}
          /\ \A i \in ShotFiles \ files : sizes[i] = <<1024, 1792>>
          /\ stitcher = [NoStitcher EXCEPT !.st = "ready", !.dir_exists = dir_exists,
                                           !.files = files, !.sizes = sizes]

NextStitcher ==
    \E lost_w \in BOOLEAN, lost_h \in BOOLEAN, write_fails \in BOOLEAN :
        \/ Stitch(lost_w, lost_h, write_fails)
        \/ \E paths \in PathLists : StitchDirect(paths, lost_w, lost_h, write_fails)

StitcherSpec == StitcherInit /\ [][NextStitcher]_vars

\* One job and two progress connections, each of which may be opened on the job's id
\* at any moment. Every started worker keeps running, and so does the loop of every
\* open connection: its q.get(timeout=1) returns an item or times out.
NextShared ==
    \/ SubmitGenerate
    \/ \E t \in Tasks : Worker(t)
    \/ \E s \in Streams : Reader(s)

SharedSpec ==
    /\ InitFor(1, 2, {1})
    /\ [][NextShared]_vars
    /\ \A t \in Tasks : WF_vars(Worker(t))
    /\ \A s \in Streams : WF_vars(StreamGet(s) \/ StreamKeepalive(s))

\* ------------------------------------------------------------- properties
TypeCount(seq, type) == Cardinality({k \in DOMAIN seq : seq[k].type = type})
TerminalAt(seq) == {k \in DOMAIN seq : seq[k].type \in TerminalTypes}
ShotEventAt(seq) == {k \in DOMAIN seq : seq[k].type \in {"shot_start", "shot_complete"}}
Threads == {t \in Tasks : task[t].via = "thread"}
Finished(t) == task[t].pc = "done"

\* C1: for every launched job, whatever the outcome of its remote calls, the items its
\* worker puts on the queue hold exactly one terminal event (one complete or one error,
\* never both, never two), and that event is immediately followed by exactly one None.
C1_OneTerminalThenSentinel ==
    \A t \in Threads :
        /\ Cardinality(TerminalAt(pushed[t])) <= 1
        /\ TypeCount(pushed[t], "None") <= 1
        /\ Finished(t) =>
              \E k \in DOMAIN pushed[t] :
                  /\ TerminalAt(pushed[t]) = {k}
                  /\ k + 1 = Len(pushed[t])
                  /\ pushed[t][k + 1] = Sentinel

\* C2 as stated: a job with N shots puts exactly N shot_start and N shot_complete
\* events on its queue, all before its terminal event and the sentinel.
C2_Original ==
    \A t \in Threads :
        Finished(t) =>
            /\ TypeCount(pushed[t], "shot_start") = task[t].n
            /\ TypeCount(pushed[t], "shot_complete") = task[t].n
            /\ \A k \in ShotEventAt(pushed[t]) :
                  \A m \in DOMAIN pushed[t] :
                      (pushed[t][m].type \in TerminalTypes \cup {"None"}) => k < m

\* C2 amended: a job with N shots whose job function ends with status completed puts
\* exactly N shot_start and N shot_complete events on its queue; any job puts at most N
\* shot_start events and never more shot_complete than shot_start events; and all of
\* them come before every terminal event and the sentinel.
C2_ShotEvents ==
    \A t \in Threads :
        /\ TypeCount(pushed[t], "shot_start") <= task[t].n
        /\ TypeCount(pushed[t], "shot_complete") <= TypeCount(pushed[t], "shot_start")
        /\ \A k \in ShotEventAt(pushed[t]) :
              \A m \in DOMAIN pushed[t] :
                  (pushed[t][m].type \in TerminalTypes \cup {"None"}) => k < m
        /\ (Finished(t) /\ task[t].results.status = "completed") =>
              /\ TypeCount(pushed[t], "shot_start") = task[t].n
              /\ TypeCount(pushed[t], "shot_complete") = task[t].n

\* A three-shot job that completed and whose worker has ended
C2_Witness ==
    \E t \in Threads :
        /\ Finished(t)
        /\ task[t].n = MaxShots
        /\ task[t].results.status = "completed"
        /\ TypeCount(pushed[t], "shot_complete") = MaxShots

Last(seq) == seq[Len(seq)]
SentinelLast(t) ==
    \A k \in DOMAIN pushed[t] : pushed[t][k] = Sentinel => k = Len(pushed[t])

\* Every worker thread started so far has ended with the sentinel as its last item
AllWorkersEnded ==
    \A t \in Threads : Finished(t) /\ pushed[t] # <<>> /\ Last(pushed[t]) = Sentinel

\* C3: every worker that is started eventually puts the sentinel on its job's queue, on
\* the success path, on the path where the job reports an error and on the path where
\* the job function raises; and the sentinel is the last item the worker ever puts.
\* (A started worker stays started and an ended one stays ended, so "from any point on,
\* a point comes where every started worker has ended" says it of each worker.)
C3_SentinelAlwaysLast ==
    /\ []<>AllWorkersEnded
    /\ [](\A t \in Tasks : SentinelLast(t))
    /\ [][\A t \in Tasks : Finished(t) => pushed'[t] = pushed[t]]_vars

\* A worker whose job function raised has ended, with the sentinel as its last item
C3_Witness ==
    \E t \in Threads :
        /\ Finished(t)
        /\ Last(pushed[t]) = Sentinel
        /\ task[t].results.status = "none"

\* The real events of a sequence of queue items: all but the sentinel
Real(seq) == SelectSeq(seq, LAMBDA e : e # Sentinel)
ReadersOf(t) == {s \in Streams : stream[s].st # "idle" /\ stream[s].task_id = t
                                  /\ ~stream[s].not_found}

\* C4: with a single stream consumer for a job, the real events the consumer relays are
\* exactly the events the worker put before the sentinel: same order, none lost, none
\* duplicated, and keepalive frames do not alter it.
C4_RelayedInOrder ==
    \A s \in Streams :
        LET t == stream[s].task_id IN
        (ReadersOf(t) = {s}) =>
            /\ stream[s].relayed \o Real(queue[t]) = Real(pushed[t])
            /\ stream[s].st = "closed" =>
                  /\ queue[t] = <<>>
                  /\ stream[s].relayed = SubSeq(pushed[t], 1, Len(pushed[t]) - 1)

\* A stream that sent a keepalive, relayed a whole three-shot job and closed
C4_Witness ==
    \E s \in Streams :
        /\ stream[s].st = "closed"
        /\ stream[s].keepalives > 0
        /\ TypeCount(stream[s].relayed, "shot_complete") = MaxShots
        /\ TypeCount(stream[s].relayed, "progress") > 0

\* C5: once the stream consumer of a job has dequeued the sentinel, the job's entry is
\* gone from progress_queues while its entry in generation_results is present, and this
\* stays so.
C5_ChannelReleasedResultKept ==
    \A s \in Streams :
        (stream[s].st = "closed" /\ ~stream[s].not_found) =>
            /\ stream[s].task_id \notin progress_queues
            /\ stream[s].task_id \in DOMAIN generation_results

\* A stream closed by the sentinel of a job that ended in error
C5_Witness ==
    \E s \in Streams :
        /\ stream[s].st = "closed"
        /\ ~stream[s].not_found
        /\ generation_results[stream[s].task_id].status = "error"

CallsOf(t, op) == {k \in DOMAIN calls[t] : calls[t][k].op = op}
Started == {t \in Tasks : task[t].via # "none"}

\* C6: in every multi-shot job the remix call for shot i >= 2 references the video
\* produced by shot i-1 of the same job, never an earlier shot's video and never the
\* source video of a remix request; in a remix sequence only shot 1 references the
\* supplied source video_id.
C6_RemixChainsFromPrevious ==
    \A t \in Started :
        \A k \in CallsOf(t, "remix") :
            LET c == calls[t][k] IN
            IF c.shot = 1
            THEN task[t].kind # "generate" /\ c.video_id = task[t].source
            ELSE /\ c.video_id = NewVideoId(t, c.shot - 1)
                 /\ c.video_id # task[t].source
                 /\ Len(task[t].results.shots) >= c.shot - 1
                 /\ c.video_id = task[t].results.shots[c.shot - 1].video_id

\* A remix sequence of three shots has issued its third remix call
C6_Witness ==
    \E t \in Threads :
        /\ task[t].kind = "remix_multi"
        /\ \E k \in CallsOf(t, "remix") : calls[t][k].shot = MaxShots

\* C7: in every reachable state of a job it has issued at most one create call, a create
\* call is issued only for shot 1 of a generation job, every call for a shot >= 2 is a
\* remix call, and jobs started through the remix entry points issue no create call.
C7_AtMostOneCreate ==
    \A t \in Started :
        /\ Cardinality(CallsOf(t, "create")) <= 1
        /\ \A k \in CallsOf(t, "create") :
              calls[t][k].shot = 1 /\ task[t].kind = "generate"
        /\ \A k \in DOMAIN calls[t] : calls[t][k].shot >= 2 => calls[t][k].op = "remix"
        /\ task[t].kind \in {"remix", "remix_multi"} => CallsOf(t, "create") = {}

\* A generation job that issued its create call and two remix calls
C7_Witness ==
    \E t \in Threads :
        /\ task[t].kind = "generate"
        /\ Cardinality(CallsOf(t, "create")) = 1
        /\ Cardinality(CallsOf(t, "remix")) = MaxShots - 1

\* C8: a generation job with N shots (1 <= N <= 3) whose remote calls and downloads all
\* succeed issues exactly one create call and N-1 remix calls, ends with status
\* completed, and its result holds exactly N Shot Results with shot_number 1..N in
\* increasing order; a single-shot job issues one create call and no remix call.
C8_CompletedGeneration ==
    \A t \in Threads :
        LET r == task[t].results IN
        (task[t].kind = "generate" /\ task[t].n \in 1..MaxShots) =>
            /\ (task[t].pc = "job_return" /\ Len(calls[t]) = task[t].n
                  /\ Len(r.shots) = task[t].n) => r.status = "completed"
            /\ r.status = "completed" =>
                  /\ Cardinality(CallsOf(t, "create")) = 1
                  /\ Cardinality(CallsOf(t, "remix")) = task[t].n - 1
                  /\ Len(r.shots) = task[t].n
                  /\ \A k \in DOMAIN r.shots : r.shots[k].shot_number = k
                  /\ (t \in DOMAIN generation_results =>
                         generation_results[t] = r)

\* A single-shot generation job has completed and its result is stored
C8_Witness ==
    \E t \in Threads :
        /\ task[t].kind = "generate"
        /\ task[t].n = 1
        /\ t \in DOMAIN generation_results
        /\ generation_results[t].status = "completed"
        /\ Len(generation_results[t].shots) = 1

RejectedGenerate(r) == r.handler = "generate" /\ r.code = 400

\* C9: a generation submission carrying more than 3 shots, or none, is answered with an
\* error before any worker is started, before any registry entry is created and before
\* any remote call is made: a generation worker only ever runs on 1..3 shots, and the
\* step that answers 400 changes nothing but the response.
C9_GenerateRejectsBadCount ==
    /\ [](\A t \in Threads : task[t].kind = "generate" => task[t].n \in 1..MaxShots)
    /\ [][(response' # response /\ RejectedGenerate(response')) =>
             /\ response'.error \in {"No shots provided", "Maximum 3 shots allowed"}
             /\ UNCHANGED <<progress_queues, generation_results, queue, task, pushed,
                            calls, stream, next_id>>]_vars

\* A submission of more than three shots was just answered 400 while another job runs
C9_Witness ==
    /\ RejectedGenerate(response)
    /\ response.error = "Maximum 3 shots allowed"
    /\ \E t \in Threads : task[t].pc = "download"

\* C10: the job function itself validates the shot count: called with a shot list whose
\* length is outside 1..3, generate_video_sequence (or remix_video_sequence) puts no
\* shot_start event and issues no remote create or remix call.
C10_JobValidatesShotCount ==
    \A t \in Started :
        (task[t].kind \in {"generate", "remix_multi"} /\ task[t].n \notin 1..MaxShots) =>
            /\ TypeCount(pushed[t], "shot_start") = 0
            /\ calls[t] = <<>>

\* A step in which a handler answers a submission with a validation error
RejectedStep ==
    /\ response'.code = 400
    /\ response' # response \/ next_id' # next_id

\* C11: a submission (generate or remix) that validation rejects (no shots, too many
\* shots, missing video_id, a shot without dialog) leaves both registries as they were
\* and starts no worker.
C11_RejectionLeavesRegistries ==
    [][RejectedStep => UNCHANGED <<progress_queues, generation_results, task>>]_vars

\* The status of job t: the one of its stored result once the runner stored it, before
\* that the one of the job function's results dict ("none": no dict yet)
StatusIn(results_map, tasks, t) ==
    IF t \in DOMAIN results_map THEN results_map[t].status ELSE tasks[t].results.status
StatusStep(t) == <<StatusIn(generation_results, task, t),
                   StatusIn(generation_results', task', t)>>

\* C12 as stated: the first status of a job is in_progress, it changes at most once,
\* to completed or to error, and a terminal status never changes again: the only
\* status changes are none -> in_progress, in_progress -> completed and
\* in_progress -> error.
C12_Original ==
    [][\A t \in Tasks :
          StatusStep(t)[1] # StatusStep(t)[2] =>
              StatusStep(t) \in {<<"none", "in_progress">>,
                                 <<"in_progress", "completed">>,
                                 <<"in_progress", "error">>}]_vars

\* C12 (amended): a job's status never goes backwards: it becomes in_progress when the
\* job function creates its results dict, or error at once when the job fails before
\* that (no API key, an exception before the try block); from in_progress it changes at
\* most once, to completed or to error, and a terminal status never changes again.
C12_StatusMonotone ==
    [][\A t \in Tasks :
          StatusStep(t)[1] # StatusStep(t)[2] =>
              StatusStep(t) \in {<<"none", "in_progress">>,
                                 <<"none", "error">>,
                                 <<"in_progress", "completed">>,
                                 <<"in_progress", "error">>}]_vars

\* A job that was in_progress (it put a shot_start) has ended with status error and its
\* worker has stored that status and ended
C12_Witness ==
    \E t \in Threads :
        /\ Finished(t)
        /\ TypeCount(pushed[t], "shot_start") > 0
        /\ t \in DOMAIN generation_results
        /\ generation_results[t].status = "error"
        /\ task[t].results.status = "error"

\* The worker threads that have ended with a stored result of status error
FailedJobs ==
    {t \in Threads : /\ Finished(t)
                     /\ t \in DOMAIN generation_results
                     /\ generation_results[t].status = "error"}

\* C13: when the job of a failed run has ended, the last real event on its queue (the
\* one immediately before the sentinel) is an error event, and its message is the
\* classification of the job's error text.
C13_ErrorEventIsLast ==
    \A t \in FailedJobs :
        /\ Real(pushed[t]) # <<>>
        /\ Last(Real(pushed[t])).type = "error"
        /\ Last(Real(pushed[t])).message = ParseOpenaiError(generation_results[t].error)

\* C14: every job that ends in error, whatever the cause, has an error event put on its
\* queue and a stored result of status error, and its exception does not leave the
\* worker thread.
C14_ErrorEventAndResult ==
    \A t \in Threads :
        /\ task[t].pc # "raised"
        /\ (Finished(t) /\ task[t].results.status # "completed") =>
               /\ TypeCount(pushed[t], "error") >= 1
               /\ t \in DOMAIN generation_results
               /\ generation_results[t].status = "error"

\* The error texts a stored result carries: its 'error' entry is the only one
TextsOf(result) == {result.error}

\* C15: the stored result of every job that ended in error carries both the raw error
\* text and its classified, human-readable message.
C15_ResultHasBothTexts ==
    \A t \in FailedJobs :
        \E raw \in TextsOf(generation_results[t]) :
            ParseOpenaiError(raw) \in TextsOf(generation_results[t])

\* The worker of task t is in, or went through, the except clause of its runner
RunnerFailed(t) ==
    task[t].pc \in {"runner_except", "runner_except_store"} \/ task[t].error_msg # ""

\* What the program holds for task u: its channel entry, its queue, its result entry and
\* its worker
JobView(channels, queues, results_map, tasks, u) ==
    <<u \in channels, queues[u], u \in DOMAIN results_map,
      IF u \in DOMAIN results_map THEN results_map[u] ELSE NoResults, tasks[u]>>

\* C16: when the job function raises out to the runner, the runner confines the failure
\* to that job: it puts an error event, stores an error result under that task id and
\* puts the sentinel, and every step it takes on the way leaves the channel entry, the
\* queue, the result entry and the worker of every other job as they were.
C16_FailureConfined ==
    /\ [](\A t \in Threads :
            (Finished(t) /\ RunnerFailed(t)) =>
                /\ Len(pushed[t]) >= 2
                /\ Last(pushed[t]) = Sentinel
                /\ pushed[t][Len(pushed[t]) - 1] = ErrorEvent(task[t].error_msg, "", "runner")
                /\ t \in DOMAIN generation_results
                /\ generation_results[t] = RunnerError(task[t].error_msg))
    /\ [][\A t \in Threads :
            (RunnerFailed(t) /\ task'[t] # task[t]) =>
                \A u \in Tasks \ {t} :
                    JobView(progress_queues', queue', generation_results', task', u)
                        = JobView(progress_queues, queue, generation_results, task, u)]_vars

\* One job's function raised and its runner has finished, next to another job that
\* completed and keeps its result
C16_Witness ==
    \E t \in Threads, u \in Threads :
        /\ t # u
        /\ Finished(t) /\ RunnerFailed(t)
        /\ Finished(u)
        /\ u \in DOMAIN generation_results
        /\ generation_results[u].status = "completed"

\* The worker of task t has stored its result: it is past the assignment to
\* generation_results[task_id]
WorkerStored(t) == task[t].pc \in {"runner_complete", "finally", "done"}
IsRead(r) == r.handler = "get_result"

\* C17: fetching a result by task id is a pure read: it answers not_found as long as
\* the worker of that task has not stored its result, it answers the stored result
\* after that, the result it answered is still the stored one whenever it is looked at
\* again, and the fetch changes neither registry (nor anything else but the response).
C17_ResultReadIsPure ==
    /\ [](\A t \in Tasks : t \in DOMAIN generation_results <=> WorkerStored(t))
    /\ [](IsRead(response) /\ response.code = 200 =>
            /\ response.task_id \in DOMAIN generation_results
            /\ generation_results[response.task_id] = response.body)
    /\ [][(IsRead(response') /\ response' # response) =>
            /\ UNCHANGED <<progress_queues, generation_results, queue, task, pushed,
                           calls, stream, next_id>>
            /\ IF WorkerStored(response'.task_id)
               THEN /\ response'.code = 200
                    /\ response'.body = generation_results[response'.task_id]
               ELSE /\ response'.code = 404
                    /\ response'.error = "not_found"]_vars

\* The result of a completed two-shot job was fetched after its stream had ended
C17_Witness ==
    /\ IsRead(response) /\ response.code = 200
    /\ response.body.status = "completed"
    /\ Len(response.body.shots) = 2
    /\ \E s \in Streams : stream[s].st = "closed" /\ stream[s].task_id = response.task_id

Writing == {t \in Threads : ~Finished(t) /\ task[t].results.has_dir}

\* C19: two distinct jobs running at the same time write their shot files into
\* different output directories, also when both were started within the same second.
C19_DistinctOutputDirs ==
    \A t \in Writing, u \in Writing :
        t # u => task[t].results.timestamp # task[u].results.timestamp

\* A step in which stream s emits a keepalive frame
KeepaliveStep(s) == stream'[s].keepalives > stream[s].keepalives

\* C20: when the wait on the queue times out the consumer emits a keepalive and goes on
\* waiting: the step leaves the queue, what was put, what was relayed and both
\* registries as they were and the stream open; and an open stream ends only by taking
\* the sentinel off its queue.
C20_KeepaliveChangesNothing ==
    [][\A s \in Streams :
          /\ KeepaliveStep(s) =>
                /\ UNCHANGED <<progress_queues, generation_results, queue, pushed, task>>
                /\ stream'[s].relayed = stream[s].relayed
                /\ stream[s].st = "open" /\ stream'[s].st = "open"
          /\ (stream[s].st = "open" /\ stream'[s].st # "open") =>
                /\ queue[stream[s].task_id] # <<>>
                /\ Head(queue[stream[s].task_id]) = Sentinel]_vars

\* A stream that sent a keepalive went on to relay every event of its job and ended on
\* the sentinel
C20_Witness ==
    \E s \in Streams :
        /\ stream[s].st = "closed"
        /\ stream[s].keepalives >= 1
        /\ Len(stream[s].relayed) >= 3
        /\ stream[s].relayed = Real(pushed[stream[s].task_id])

\* The continuation wording of build_prompt: "The same", "in the same", "same speaking
\* voice", "from previous shot"
ContinuationLits == {TheSame, InTheSame, SameVoice, SameVoiceAsPrevious, MaintainingSame}
TokensOf(prompt) == {prompt[k] : k \in DOMAIN prompt}
HasContinuation(prompt) == TokensOf(prompt) \cap ContinuationLits # {}
Built == prompter.kind # "none"

\* C21: for every shot list of 1 to 3 shots (whose values carry no continuation wording
\* of their own) the prompt built with shot_number = 1 has no continuation clause, and
\* the prompt built with shot_number >= 2 has at least one, also when every field of
\* the shot is blank.
C21_ContinuationOnlyAfterShot1 ==
    Built =>
        IF PromptShotNumber(prompter.kind, prompter.i) = 1
        THEN ~HasContinuation(prompter.prompt)
        ELSE HasContinuation(prompter.prompt)

\* The prompt of shot 3 of a generation whose shots 1 and 3 have every field blank
C21_Witness ==
    /\ prompter.kind = "generate" /\ prompter.i = 3
    /\ \A f \in Fields : prompter.shots[1][f] = Blank /\ prompter.shots[3][f] = Blank
    /\ HasContinuation(prompter.prompt)

\* C22: for every shot of index >= 2 of a job's shot list and each of the fields
\* characters, environment, lighting, camera_angles and voice: when the field is blank
\* in the shot and not in shot 1, the prompt built for the shot contains shot 1's value;
\* when it is not blank in the shot, the prompt contains the shot's own value and not
\* shot 1's.
C22_FallbackToShot1 ==
    (prompter.kind \in {"generate", "remix_multi"} /\ prompter.i >= 2) =>
        \A f \in FallbackFields :
            LET own == Strip(prompter.shots[prompter.i][f])
                first == Strip(prompter.shots[1][f])
            IN  /\ (own = Blank /\ first # Blank) => first \in TokensOf(prompter.prompt)
                /\ own # Blank => /\ own \in TokensOf(prompter.prompt)
                                  /\ first \notin TokensOf(prompter.prompt)

BlankShot == ShotOf(BlankTemplate, 1)
RemixJobs == {t \in Started : task[t].kind \in {"remix", "remix_multi"}}

\* C28: on both remix entry points the prompt of every shot, the first one and a single
\* remix included, is built with a shot_number >= 2 and so by the continuation rules,
\* while the shot numbers of the job's events and Shot Results count from 1.
C28_RemixPromptsContinue ==
    \A t \in RemixJobs :
        /\ \A k \in DOMAIN calls[t] :
              /\ calls[t][k].shot = k
              /\ calls[t][k].prompt_shot_number >= 2
              /\ HasContinuation(BuildPrompt(BlankShot, calls[t][k].prompt_shot_number,
                                             <<BlankShot>>))
        /\ \A k \in DOMAIN pushed[t] :
              pushed[t][k].type \in {"shot_start", "progress", "shot_complete"} =>
                  pushed[t][k].shot_number \in 1..task[t].n
        /\ pushed[t] # <<>> /\ pushed[t][1].type = "shot_start" => pushed[t][1].shot_number = 1
        /\ \A k \in DOMAIN task[t].results.shots : task[t].results.shots[k].shot_number = k

\* A single remix has completed: one remix call, Shot Result number 1
C28_Witness ==
    \E t \in RemixJobs :
        /\ task[t].kind = "remix"
        /\ task[t].pc = "job_return"
        /\ Len(calls[t]) = 1
        /\ Len(task[t].results.shots) = 1
        /\ task[t].results.status = "completed"

C24_StitchNeedsClips ==
    stitcher.st = "done" =>
        /\ (stitcher.called /\ ExistingOf(stitcher.paths, stitcher.files) = <<>>) =>
              /\ stitcher.error = "No valid video clips to stitch"
              /\ ~stitcher.output
              /\ stitcher.scaled = <<>>
        /\ (stitcher.via = "endpoint" /\ stitcher.files = {}) =>
              /\ ~stitcher.called
              /\ ~stitcher.output
              /\ stitcher.code \in {400, 404}
        /\ stitcher.output => stitcher.scaled # <<>>
        /\ \A k \in DOMAIN stitcher.scaled :
              /\ stitcher.scaled[k][1] <= FrameWidth
              /\ stitcher.scaled[k][2] <= FrameHeight

\* The endpoint stitched two clips, a landscape one among them, and wrote the output
C24_Witness ==
    /\ stitcher.st = "done" /\ stitcher.via = "endpoint"
    /\ stitcher.code = 200 /\ stitcher.output
    /\ Len(stitcher.scaled) = 2
    /\ \E i \in stitcher.files : stitcher.sizes[i] = <<1280, 720>>


\* The job function of task t caught a failure in its try block, at its shot task[t].i
Stopped(t) == task[t].i >= 1 /\ task[t].results.status = "error"
ByJob(seq) == SelectSeq(seq, LAMBDA e : e.by = "job")
ShotStartsOf(seq, j) == {p \in DOMAIN seq : seq[p].type = "shot_start" /\ seq[p].shot_number = j}
\* The Shot Results of shots 1..k of task t
ShotsThrough(t, k) == [j \in 1..k |-> ShotResult(j, NewVideoId(t, j))]

\* C25: when the remote call or the download of shot k of a job fails, the job's status
\* is error, an error event is the last event the job puts, and no later shot is
\* processed: each of the shots 1..k was started once and no shot after k, no remote
\* call and no download is issued for a shot after k, no shot is called twice, and the
\* result the job returns holds the Shot Results of shots 1..k-1.
C25_StopsAtFailure ==
    \A t \in Started :
        Stopped(t) =>
            LET k  == task[t].i
                ev == ByJob(pushed[t])
            IN  /\ ev # <<>>
                /\ Last(ev).type = "error"
                /\ TypeCount(ev, "error") = 1
                /\ \A p \in DOMAIN ev : ev[p].type # "error" => ev[p].shot_number <= k
                /\ \A j \in 1..task[t].n :
                      Cardinality(ShotStartsOf(ev, j)) = (IF j <= k THEN 1 ELSE 0)
                /\ Len(calls[t]) \in {k - 1, k}
                /\ \A j \in DOMAIN calls[t] : calls[t][j].shot = j
                /\ task[t].video \in {NoVideo} \cup {NewVideoId(t, j) : j \in 1..k}
                /\ task[t].results.shots = ShotsThrough(t, k - 1)

\* A job of three shots or more that failed at its shot 2 has returned: one Shot Result
C25_Witness ==
    \E t \in Started :
        /\ task[t].pc = "job_return"
        /\ Stopped(t)
        /\ task[t].i = 2
        /\ task[t].n >= 3
        /\ Len(task[t].results.shots) = 1


\* Where the events of one type of shot i stand in a sequence of queue items
ShotEventsAt(seq, type, i) ==
    {p \in DOMAIN seq : seq[p].type = type /\ seq[p].shot_number = i}
\* Where any event of shot i stands
ShotAt(seq, i) ==
    {p \in DOMAIN seq : seq[p].type \in {"shot_start", "progress", "shot_complete"}
                         /\ seq[p].shot_number = i}

\* C26: within a job, for every shot i: shot_start(i) is put before the remote call of
\* shot i, the progress(i) events and shot_complete(i) come after that call, in the order
\* shot_start(i), progress(i)..., shot_complete(i); Shot Result i is appended only once
\* shot_complete(i) is put; and shot_start(i+1) comes after every event and call of shot
\* i and after the append of Shot Result i.
C26_ShotOrder ==
    \A t \in Started :
        LET ev    == pushed[t]
            shots == task[t].results.shots
        IN  /\ \A k \in DOMAIN calls[t] : calls[t][k].shot = k
            /\ \A k \in DOMAIN shots : shots[k].shot_number = k
            /\ \A i \in 1..(task[t].n + 1) :
                  /\ Cardinality(ShotEventsAt(ev, "shot_start", i)) <= 1
                  /\ Cardinality(ShotEventsAt(ev, "shot_complete", i)) <= 1
                  /\ Len(calls[t]) >= i => ShotEventsAt(ev, "shot_start", i) # {}
                  /\ (ShotEventsAt(ev, "progress", i) \cup ShotEventsAt(ev, "shot_complete", i)) # {}
                        => Len(calls[t]) >= i
                  /\ \A p \in ShotEventsAt(ev, "progress", i) \cup ShotEventsAt(ev, "shot_complete", i) :
                        \E s \in ShotEventsAt(ev, "shot_start", i) : s < p
                  /\ \A c \in ShotEventsAt(ev, "shot_complete", i) :
                        \A p \in ShotEventsAt(ev, "progress", i) : p < c
                  /\ Len(shots) >= i => ShotEventsAt(ev, "shot_complete", i) # {}
                  /\ i > 1 =>
                        \A s \in ShotEventsAt(ev, "shot_start", i) :
                            /\ Len(shots) >= i - 1
                            /\ ShotEventsAt(ev, "shot_complete", i - 1) # {}
                            /\ \A p \in ShotAt(ev, i - 1) : p < s

\* A job has put the events of two whole shots, progress events included
C26_Witness ==
    \E t \in Started :
        /\ ShotEventsAt(pushed[t], "progress", 1) # {}
        /\ ShotEventsAt(pushed[t], "progress", 2) # {}
        /\ ShotEventsAt(pushed[t], "shot_complete", 2) # {}
        /\ Len(task[t].results.shots) = 2
        /\ Len(calls[t]) = 2


\* The parameters only a create call may carry
CreateOnly == {"model", "size", "seconds", "input_reference"}

\* C27: every remote remix call carries exactly the parameters video_id and prompt, with
\* no size, model, duration or reference image; a create call is only issued for shot 1
\* of a generation and carries model, prompt, size and the duration of 12 seconds; and a
\* reference image is attached to no call but that create call, when the job has one.
C27_RemixCarriesIdAndPrompt ==
    \A t \in Started :
        \A k \in DOMAIN calls[t] :
            LET c == calls[t][k] IN
            /\ c.op \in {"create", "remix"}
            /\ c.op = "remix" =>
                  /\ c.params = {"video_id", "prompt"}
                  /\ c.seconds = NoSeconds
                  /\ c.video_id # NoVideo
            /\ c.op = "create" =>
                  /\ c.shot = 1 /\ k = 1
                  /\ task[t].kind = "generate"
                  /\ {"model", "prompt", "size", "seconds"} \subseteq c.params
                  /\ c.params \subseteq {"model", "prompt", "size", "seconds", "input_reference"}
                  /\ c.seconds = "12"
                  /\ "input_reference" \in c.params => task[t].ref
            /\ c.params \cap CreateOnly # {} => c.op = "create" /\ c.shot = 1

\* A generation with a reference image has issued its create call, with the image, and a
\* remix call for shot 2
C27_Witness ==
    \E t \in Started :
        /\ task[t].kind = "generate"
        /\ Len(calls[t]) >= 2
        /\ "input_reference" \in calls[t][1].params
        /\ calls[t][2].op = "remix"


\* The worker of task t went through the deletion of its temporary images
Cleaned(t) == task[t].cleanup # "none"
ByRunner(seq) == SelectSeq(seq, LAMBDA e : e.by = "runner")

\* C29: whether the deletion of a temporary reference image (the original or its .jpg
\* version) fails or not, the outcome of the generation is the same: the runner never
\* enters its except clause and puts no error event, the stored result is the result the
\* job function returned, and the worker ends with the complete event followed by the
\* sentinel.
C29_CleanupFailureSwallowed ==
    \A t \in Threads :
        Cleaned(t) =>
            /\ ~RunnerFailed(t)
            /\ TypeCount(ByRunner(pushed[t]), "error") = 0
            /\ t \in DOMAIN generation_results => generation_results[t] = task[t].results
            /\ task[t].pc \in {"job_return", "runner_complete", "finally", "done"}
            /\ task[t].pc \in {"runner_complete", "finally", "done"} =>
                  t \in DOMAIN generation_results
            /\ Finished(t) =>
                  ByRunner(pushed[t]) = <<Event("complete", 0, 0, "runner"), Sentinel>>

\* A generation whose temporary image could not be deleted has ended, completed
C29_Witness ==
    \E t \in Threads :
        /\ Finished(t)
        /\ task[t].cleanup = "failed"
        /\ t \in DOMAIN generation_results
        /\ generation_results[t].status = "completed"
        /\ Last(pushed[t]) = Sentinel


\* A stream on task t takes the sentinel off the queue and ends
StreamEndsOn(t) ==
    \E s \in Streams :
        /\ stream[s].st = "open" /\ stream[s].task_id = t
        /\ queue[t] # <<>> /\ Head(queue[t]) = Sentinel
        /\ stream'[s].st = "closed"
\* No progress connection was ever opened for task t
NeverStreamed(t) == \A s \in Streams : stream[s].task_id # t

\* C30: the channel entry of a job leaves progress_queues only in a step of a stream
\* consumer of that job, the one that takes the sentinel; the steps of the worker, its
\* end on success or on error included, and the reads of the result leave it in place,
\* so the entry of a job whose stream was never opened is in progress_queues in every
\* state.
C30_OnlyStreamRemovesChannel ==
    /\ [][\A t \in Tasks :
            (t \in progress_queues /\ t \notin progress_queues') => StreamEndsOn(t)]_vars
    /\ [](\A t \in Threads : NeverStreamed(t) => t \in progress_queues)

\* A job has ended and its result was fetched with no stream ever opened: its channel
\* entry is still there
C30_Witness ==
    \E t \in Threads :
        /\ Finished(t)
        /\ NeverStreamed(t)
        /\ IsRead(response) /\ response.task_id = t /\ response.code = 200
        /\ t \in progress_queues


\* The Shot Results of a list are those of shots 1..k, in increasing order
NumberedThrough(shots, k) ==
    Len(shots) = k /\ \A j \in DOMAIN shots : shots[j].shot_number = j

\* C34: in the result a job function returns, and in the result stored for it, the Shot
\* Results are those of shots 1..k in increasing order, where k is the number of
\* shot_complete events the job has put; k is the number of shots N of the job when the
\* status is completed, and k < N when the status is error after the failure of a shot.
C34_ShotResultsMatchCompletes ==
    \A t \in Threads :
        LET r == task[t].results
            k == TypeCount(pushed[t], "shot_complete")
        IN  /\ NumberedThrough(r.shots, k)
            /\ r.status = "completed" => k = task[t].n
            /\ Stopped(t) => k < task[t].n
            /\ (t \in DOMAIN generation_results /\ ~RunnerFailed(t)) =>
                  /\ NumberedThrough(generation_results[t].shots, k)
                  /\ generation_results[t].status = r.status

\* A job of three shots that failed at its shot 3 has ended: two shot_complete events,
\* two Shot Results in the stored result
C34_Witness ==
    \E t \in Threads :
        /\ Finished(t)
        /\ Stopped(t)
        /\ task[t].n = 3
        /\ TypeCount(pushed[t], "shot_complete") = 2
        /\ t \in DOMAIN generation_results
        /\ Len(generation_results[t].shots) = 2


\* The terminal events the runner of task t has put on the queue
RunnerTerminalAt(t) ==
    {k \in DOMAIN pushed[t] : pushed[t][k].by = "runner"
                               /\ pushed[t][k].type \in TerminalTypes}

\* C32: whenever a terminal event (complete or error) put by the runner of a job is on
\* the job's queue or was taken from it, the result of the job is in generation_results,
\* so that a result read made after the event is seen never answers not_found; on the
\* success path and on the path where the job function raised.
C32_ResultBeforeTerminal ==
    \A t \in Threads :
        RunnerTerminalAt(t) # {} => t \in DOMAIN generation_results


\* The worker of task t has put the sentinel on the queue of the task
SentinelPushed(t) == \E k \in DOMAIN pushed[t] : pushed[t][k] = Sentinel
\* The streams that are open on the queue of task t
OpenOn(t) == {s \in Streams : stream[s].st = "open" /\ stream[s].task_id = t}

\* C31: every stream opened on a job id that is in progress_queues closes once the
\* worker of the job has put the sentinel, also when a second stream is open on the same
\* job id: no stream is left waiting for ever on the queue of an ended job.
C31_EveryStreamCloses ==
    \A s \in Streams :
        (stream[s].st = "open" /\ SentinelPushed(stream[s].task_id))
            ~> (stream[s].st = "closed")


\* Stream s is opened in this step, on an id that is not in progress_queues
OpensUnknown(s) ==
    /\ stream[s].st = "idle"
    /\ stream'[s].st # "idle"
    /\ stream'[s].task_id \notin progress_queues

\* C33: opening a stream on an id that is not in progress_queues (never launched, or
\* released after its sentinel was taken) gives the Task not found frame and nothing
\* else, and the stream is closed at once; the step adds, removes and changes no entry
\* of progress_queues or of generation_results and touches no queue.
C33_UnknownStreamNotFound ==
    /\ [][\A s \in Streams :
            OpensUnknown(s) =>
                /\ stream'[s].st = "closed"
                /\ stream'[s].not_found
                /\ stream'[s].relayed = <<>>
                /\ stream'[s].keepalives = 0
                /\ progress_queues' = progress_queues
                /\ generation_results' = generation_results
                /\ queue' = queue]_vars
    /\ [](\A s \in Streams :
            stream[s].not_found =>
                /\ stream[s].st = "closed"
                /\ stream[s].relayed = <<>>
                /\ stream[s].keepalives = 0)

\* A stream was opened on the id of a job whose entry another stream had released; the
\* result of the job is still there
C33_Witness ==
    \E s, r \in Streams :
        /\ stream[s].not_found
        /\ stream[r].st = "closed" /\ ~stream[r].not_found
        /\ stream[r].task_id = stream[s].task_id
        /\ stream[s].task_id \in DOMAIN generation_results
        /\ stream[s].task_id \notin progress_queues

====
